---- MODULE Spec2Model ----
(***************************************************************************)
(* Model of src/main.rs: the StatefulList selection type, the App          *)
(* workspace built by App::new, and the draw/read loop of run_app.         *)
(*                                                                         *)
(* Two specifications share the variables:                                 *)
(*   Spec      the program: App::new followed by the loop of run_app;      *)
(*   ListSpec  StatefulList<T> on its own: a list built by                 *)
(*             StatefulList::new from any item sequence of bounded length, *)
(*             then driven by next()/previous() calls.                     *)
(***************************************************************************)
EXTENDS Integers, Sequences, FiniteSets

VARIABLES
    app,              \* the App value owned by run_app
    pc,               \* position of main and of run_app inside it: "enable_raw_mode",
                      \* "EnterAlternateScreen", "Terminal::new", "draw", "read", "returned"
                      \* (run_app is back in main), "panicked", "LeaveAlternateScreen",
                      \* "show_cursor", "report", "exited"
    res,              \* result of run_app: "none", "Ok", "Err"
    frame,            \* what the last completed terminal.draw put on screen (<<>> before the first)
    log,              \* history: the events read since the start (collapses once longer than MaxLog)
    hist,             \* history: the last two events read, each with the App it was applied to
    navigated,        \* history: the tabs whose list had next() or previous() called on it
    draws,            \* history: the draws completed since the last event was read (or the start)
    seen,             \* history: draws and frame at the moment the last event was read
    before_draw,      \* history: the App the last completed draw started from
    terminal,         \* the terminal: raw mode on, alternate screen entered
    called,           \* history: the teardown calls main has made
    failed,           \* history: the I/O calls that returned an error
    stderr,           \* what was written to the error stream
    exit_code,        \* <<>> while the process runs, then <<code>>
    overflow_checks,  \* the build: TRUE = overflow checks on (debug), FALSE = off (release)
    list,             \* ListSpec: the StatefulList under test
    calls,            \* ListSpec: the calls made so far, each with the list it was made on
    list_panicked     \* ListSpec: a call panicked

vars == <<app, pc, res, frame, log, hist, navigated, draws, seen, before_draw,
          terminal, called, failed, stderr, exit_code,
          overflow_checks, list, calls, list_panicked>>

\* what main owns outside run_app
mainVars == <<terminal, called, stderr, exit_code>>

(* ------------------------------ bounds --------------------------------- *)

\* longest event history kept in full
MaxLog == 3
\* longest item sequence given to StatefulList::new in ListSpec
MaxLen == 3
\* number of next()/previous() calls made in ListSpec
MaxCalls == 4

\* item values of the lists of ListSpec
Items == {"a", "b"}

(* ------------------------------ usize ---------------------------------- *)

\* largest usize of the model (the arithmetic of lines 32 and 47 is in usize)
USIZE_MAX == 2147483647

\* a - b in usize: the value the release build computes (wrapping)
usize_sub(a, b) == IF a >= b THEN a - b ELSE (USIZE_MAX - (b - a)) + 1

\* a - b overflows: the debug build panics here
usize_sub_overflows(a, b) == a < b

\* a + b in usize (wrapping)
usize_add(a, b) == IF a <= USIZE_MAX - b THEN a + b ELSE (a - (USIZE_MAX - b)) - 1

usize_add_overflows(a, b) == a > USIZE_MAX - b

(* --------------------------- Option<usize> ----------------------------- *)

None == [some |-> FALSE, val |-> 0]
Some(i) == [some |-> TRUE, val |-> i]

(* ---------------------------- StatefulList ----------------------------- *)

\* ListState::default(): nothing selected
ListState_default == None

\* StatefulList::new
StatefulList_new(items) == [state |-> ListState_default, items |-> items]

\* next() with the wrap test written i > len - 1: the last index is stepped past
next_strict(l) ==
    LET len == Len(l.items)
        sel == l.state
    IN  IF sel.some
        THEN IF usize_sub_overflows(len, 1) /\ overflow_checks
             THEN [panic |-> TRUE, list |-> l]
             ELSE IF sel.val > usize_sub(len, 1)
                  THEN [panic |-> FALSE, list |-> [l EXCEPT !.state = Some(0)]]
                  ELSE [panic |-> FALSE,
                        list |-> [l EXCEPT !.state = Some(usize_add(sel.val, 1))]]
        ELSE [panic |-> FALSE, list |-> [l EXCEPT !.state = Some(0)]]

\* next() that stops at the last item instead of wrapping to the first
next_clamp(l) ==
    LET len == Len(l.items)
        sel == l.state
    IN  IF sel.some
        THEN IF usize_sub_overflows(len, 1) /\ overflow_checks
             THEN [panic |-> TRUE, list |-> l]
             ELSE IF sel.val >= usize_sub(len, 1)
                  THEN [panic |-> FALSE, list |-> l]
                  ELSE [panic |-> FALSE,
                        list |-> [l EXCEPT !.state = Some(usize_add(sel.val, 1))]]
        ELSE [panic |-> FALSE, list |-> [l EXCEPT !.state = Some(0)]]

\* StatefulList::next: the list after the call, and whether the call panicked
next(l) ==
    LET len == Len(l.items)
        sel == l.state
    IN  IF sel.some
        THEN IF usize_sub_overflows(len, 1) /\ overflow_checks
             THEN [panic |-> TRUE, list |-> l]
             ELSE IF sel.val >= usize_sub(len, 1)
                  THEN [panic |-> FALSE, list |-> [l EXCEPT !.state = Some(0)]]
                  ELSE IF usize_add_overflows(sel.val, 1) /\ overflow_checks
                       THEN [panic |-> TRUE, list |-> l]
                       ELSE [panic |-> FALSE,
                             list |-> [l EXCEPT !.state = Some(usize_add(sel.val, 1))]]
        ELSE [panic |-> FALSE, list |-> [l EXCEPT !.state = Some(0)]]

\* previous() that wraps to len instead of len - 1
previous_wrap_len(l) ==
    LET len == Len(l.items)
        sel == l.state
    IN  IF sel.some
        THEN IF sel.val = 0
             THEN [panic |-> FALSE, list |-> [l EXCEPT !.state = Some(len)]]
             ELSE [panic |-> FALSE, list |-> [l EXCEPT !.state = Some(sel.val - 1)]]
        ELSE [panic |-> FALSE, list |-> [l EXCEPT !.state = Some(0)]]

\* previous() that starts from the last item when nothing is selected
previous_none_last(l) ==
    LET len == Len(l.items)
        sel == l.state
    IN  IF sel.some /\ sel.val # 0
        THEN [panic |-> FALSE, list |-> [l EXCEPT !.state = Some(sel.val - 1)]]
        ELSE IF usize_sub_overflows(len, 1) /\ overflow_checks
             THEN [panic |-> TRUE, list |-> l]
             ELSE [panic |-> FALSE,
                   list |-> [l EXCEPT !.state = Some(usize_sub(len, 1))]]

\* previous() that stops at the first item instead of wrapping to the last
previous_clamp(l) ==
    LET sel == l.state
    IN  IF sel.some
        THEN IF sel.val = 0
             THEN [panic |-> FALSE, list |-> l]
             ELSE [panic |-> FALSE, list |-> [l EXCEPT !.state = Some(sel.val - 1)]]
        ELSE [panic |-> FALSE, list |-> [l EXCEPT !.state = Some(0)]]

\* StatefulList::previous: the list after the call, and whether the call panicked
previous(l) ==
    LET len == Len(l.items)
        sel == l.state
    IN  IF sel.some
        THEN IF sel.val = 0
             THEN IF usize_sub_overflows(len, 1) /\ overflow_checks
                  THEN [panic |-> TRUE, list |-> l]
                  ELSE [panic |-> FALSE,
                        list |-> [l EXCEPT !.state = Some(usize_sub(len, 1))]]
             ELSE [panic |-> FALSE, list |-> [l EXCEPT !.state = Some(sel.val - 1)]]
        ELSE [panic |-> FALSE, list |-> [l EXCEPT !.state = Some(0)]]

(* -------------------------------- App ---------------------------------- *)

\* indices of App.tabs, App.task_lists and App.show_details (Vec, 0-based)
TabIndices == 0 .. 2

\* App::new with no task in the last tab
App_new_empty ==
    [tabs |-> [t \in TabIndices |->
                  IF t = 0 THEN "Work" ELSE IF t = 1 THEN "Personal" ELSE "Hobbies"],
     active_tab |-> 0,
     task_lists |-> [t \in TabIndices |->
                  IF t = 0 THEN StatefulList_new(<<"Finish project report", "Email manager">>)
                  ELSE IF t = 1 THEN StatefulList_new(<<"Buy groceries", "Call family">>)
                  ELSE StatefulList_new(<<>>)],
     show_details |-> [t \in TabIndices |-> FALSE]]

\* App::new
App_new ==
    [tabs |-> [t \in TabIndices |->
                  IF t = 0 THEN "Work" ELSE IF t = 1 THEN "Personal" ELSE "Hobbies"],
     active_tab |-> 0,
     task_lists |-> [t \in TabIndices |->
                  IF t = 0 THEN StatefulList_new(<<"Finish project report", "Email manager">>)
                  ELSE IF t = 1 THEN StatefulList_new(<<"Buy groceries", "Call family">>)
                  ELSE StatefulList_new(<<"Practice guitar", "Read a book">>)],
     show_details |-> [t \in TabIndices |-> FALSE]]

(* ------------------------------ events --------------------------------- *)

\* keys with no arm of their own in the match of run_app
OtherKeys == {"5", "Esc"}
\* events that are not Event::Key
NonKeyEvents == {"Resize"}

Overflow == <<"...">>

\* the histories after event ev was read in the current state
logged(ev) == IF log = Overflow \/ Len(log) >= MaxLog THEN Overflow ELSE Append(log, ev)
recorded(ev) ==
    IF hist = <<>> THEN <<[ev |-> ev, app |-> app]>>
    ELSE <<hist[Len(hist)], [ev |-> ev, app |-> app]>>

(* ------------------------------ run_app -------------------------------- *)

\* a closure that always draws the list of the first tab
render_first_tab(a) ==
    [tabs |-> a.tabs,
     select |-> a.active_tab,
     task_items |-> a.task_lists[0].items,
     selected |-> a.task_lists[0].state,
     detail |-> a.show_details[a.active_tab]]

\* the closure given to terminal.draw: what is put on screen for an App
render(a) ==
    [tabs |-> a.tabs,
     select |-> a.active_tab,
     task_items |-> a.task_lists[a.active_tab].items,
     selected |-> a.task_lists[a.active_tab].state,
     detail |-> a.show_details[a.active_tab]]

\* terminal.draw(..)? succeeds
Draw ==
    /\ pc = "draw"
    /\ frame' = <<render(app)>>
    /\ pc' = "read"
    /\ UNCHANGED <<app, res, log, hist, navigated, overflow_checks, list, calls, list_panicked>>
    /\ draws' = draws + 1
    /\ before_draw' = app
    /\ UNCHANGED <<seen, failed>>
    /\ UNCHANGED mainVars

\* terminal.draw(..)? fails: run_app returns the error
DrawErr ==
    /\ pc = "draw"
    /\ pc' = "returned"
    /\ res' = "Err"
    /\ UNCHANGED <<app, frame, log, hist, navigated, overflow_checks, list, calls, list_panicked>>
    /\ failed' = failed \cup {"draw"}
    /\ UNCHANGED <<draws, seen, before_draw>>
    /\ UNCHANGED mainVars

\* event::read()? fails: run_app returns the error
ReadErr ==
    /\ pc = "read"
    /\ pc' = "returned"
    /\ res' = "Err"
    /\ UNCHANGED <<app, frame, log, hist, navigated, overflow_checks, list, calls, list_panicked>>
    /\ failed' = failed \cup {"read"}
    /\ UNCHANGED <<draws, seen, before_draw>>
    /\ UNCHANGED mainVars

\* KeyCode::Char('q') => return Ok(())
KeyQ ==
    /\ pc = "read"
    /\ pc' = "returned"
    /\ res' = "Ok"
    /\ log' = logged("q")
    /\ hist' = recorded("q")
    /\ UNCHANGED <<app, frame, navigated, overflow_checks, list, calls, list_panicked>>
    /\ seen' = [draws |-> draws, frame |-> frame]
    /\ draws' = 0
    /\ UNCHANGED <<before_draw, failed>>
    /\ UNCHANGED mainVars

\* '1' that also hides the details of the tab it switches to
Key1_reset ==
    /\ pc = "read"
    /\ app' = [app EXCEPT !.active_tab = 0, !.show_details[0] = FALSE]
    /\ pc' = "draw"
    /\ log' = logged("1")
    /\ hist' = recorded("1")
    /\ UNCHANGED <<res, frame, navigated, overflow_checks, list, calls, list_panicked>>
    /\ seen' = [draws |-> draws, frame |-> frame]
    /\ draws' = 0
    /\ UNCHANGED <<before_draw, failed>>
    /\ UNCHANGED mainVars

\* KeyCode::Char('1') => app.active_tab = 0
Key1 ==
    /\ pc = "read"
    /\ app' = [app EXCEPT !.active_tab = 0]
    /\ pc' = "draw"
    /\ log' = logged("1")
    /\ hist' = recorded("1")
    /\ UNCHANGED <<res, frame, navigated, overflow_checks, list, calls, list_panicked>>
    /\ seen' = [draws |-> draws, frame |-> frame]
    /\ draws' = 0
    /\ UNCHANGED <<before_draw, failed>>
    /\ UNCHANGED mainVars

\* '2' that also clears the selection of the tab it switches to
Key2_deselect ==
    /\ pc = "read"
    /\ app' = [app EXCEPT !.active_tab = 1, !.task_lists[1].state = None]
    /\ pc' = "draw"
    /\ log' = logged("2")
    /\ hist' = recorded("2")
    /\ UNCHANGED <<res, frame, navigated, overflow_checks, list, calls, list_panicked>>
    /\ seen' = [draws |-> draws, frame |-> frame]
    /\ draws' = 0
    /\ UNCHANGED <<before_draw, failed>>
    /\ UNCHANGED mainVars

\* KeyCode::Char('2') => app.active_tab = 1
Key2 ==
    /\ pc = "read"
    /\ app' = [app EXCEPT !.active_tab = 1]
    /\ pc' = "draw"
    /\ log' = logged("2")
    /\ hist' = recorded("2")
    /\ UNCHANGED <<res, frame, navigated, overflow_checks, list, calls, list_panicked>>
    /\ seen' = [draws |-> draws, frame |-> frame]
    /\ draws' = 0
    /\ UNCHANGED <<before_draw, failed>>
    /\ UNCHANGED mainVars

\* KeyCode::Char('3') => app.active_tab = 2
Key3 ==
    /\ pc = "read"
    /\ app' = [app EXCEPT !.active_tab = 2]
    /\ pc' = "draw"
    /\ log' = logged("3")
    /\ hist' = recorded("3")
    /\ UNCHANGED <<res, frame, navigated, overflow_checks, list, calls, list_panicked>>
    /\ seen' = [draws |-> draws, frame |-> frame]
    /\ draws' = 0
    /\ UNCHANGED <<before_draw, failed>>
    /\ UNCHANGED mainVars

\* Enter that shows the details instead of toggling them
KeyEnter_set ==
    /\ pc = "read"
    /\ app' = [app EXCEPT !.show_details[app.active_tab] = TRUE]
    /\ pc' = "draw"
    /\ log' = logged("Enter")
    /\ hist' = recorded("Enter")
    /\ UNCHANGED <<res, frame, navigated, overflow_checks, list, calls, list_panicked>>
    /\ seen' = [draws |-> draws, frame |-> frame]
    /\ draws' = 0
    /\ UNCHANGED <<before_draw, failed>>
    /\ UNCHANGED mainVars

\* KeyCode::Enter => app.show_details[app.active_tab] = !app.show_details[app.active_tab]
KeyEnter ==
    /\ pc = "read"
    /\ app' = [app EXCEPT !.show_details[app.active_tab] = ~app.show_details[app.active_tab]]
    /\ pc' = "draw"
    /\ log' = logged("Enter")
    /\ hist' = recorded("Enter")
    /\ UNCHANGED <<res, frame, navigated, overflow_checks, list, calls, list_panicked>>
    /\ seen' = [draws |-> draws, frame |-> frame]
    /\ draws' = 0
    /\ UNCHANGED <<before_draw, failed>>
    /\ UNCHANGED mainVars

\* Down that always moves the selection of the first tab
KeyDown_first ==
    /\ pc = "read"
    /\ LET r == next(app.task_lists[0])
       IN  /\ app' = IF r.panic THEN app
                     ELSE [app EXCEPT !.task_lists[0] = r.list]
           /\ pc' = IF r.panic THEN "panicked" ELSE "draw"
    /\ log' = logged("Down")
    /\ hist' = recorded("Down")
    /\ navigated' = navigated \cup {0}
    /\ UNCHANGED <<res, frame, overflow_checks, list, calls, list_panicked>>
    /\ seen' = [draws |-> draws, frame |-> frame]
    /\ draws' = 0
    /\ UNCHANGED <<before_draw, failed>>
    /\ UNCHANGED mainVars

\* KeyCode::Down => app.task_lists[app.active_tab].next()
KeyDown ==
    /\ pc = "read"
    /\ LET r == next(app.task_lists[app.active_tab])
       IN  /\ app' = IF r.panic THEN app
                     ELSE [app EXCEPT !.task_lists[app.active_tab] = r.list]
           /\ pc' = IF r.panic THEN "panicked" ELSE "draw"
    /\ log' = logged("Down")
    /\ hist' = recorded("Down")
    /\ navigated' = navigated \cup {app.active_tab}
    /\ UNCHANGED <<res, frame, overflow_checks, list, calls, list_panicked>>
    /\ seen' = [draws |-> draws, frame |-> frame]
    /\ draws' = 0
    /\ UNCHANGED <<before_draw, failed>>
    /\ UNCHANGED mainVars

\* KeyCode::Up => app.task_lists[app.active_tab].previous()
KeyUp ==
    /\ pc = "read"
    /\ LET r == previous(app.task_lists[app.active_tab])
       IN  /\ app' = IF r.panic THEN app
                     ELSE [app EXCEPT !.task_lists[app.active_tab] = r.list]
           /\ pc' = IF r.panic THEN "panicked" ELSE "draw"
    /\ log' = logged("Up")
    /\ hist' = recorded("Up")
    /\ navigated' = navigated \cup {app.active_tab}
    /\ UNCHANGED <<res, frame, overflow_checks, list, calls, list_panicked>>
    /\ seen' = [draws |-> draws, frame |-> frame]
    /\ draws' = 0
    /\ UNCHANGED <<before_draw, failed>>
    /\ UNCHANGED mainVars

\* every digit key selects a tab: '5' makes tab index 4 the active one
KeyOther_digit ==
    /\ pc = "read"
    /\ \E k \in OtherKeys :
          /\ app' = IF k = "5" THEN [app EXCEPT !.active_tab = 4] ELSE app
          /\ log' = logged(k)
          /\ hist' = recorded(k)
    /\ pc' = "draw"
    /\ UNCHANGED <<res, frame, navigated, overflow_checks, list, calls, list_panicked>>
    /\ seen' = [draws |-> draws, frame |-> frame]
    /\ draws' = 0
    /\ UNCHANGED <<before_draw, failed>>
    /\ UNCHANGED mainVars

\* Esc ends the loop as 'q' does
KeyOther_quit ==
    /\ pc = "read"
    /\ \E k \in OtherKeys :
          /\ log' = logged(k)
          /\ hist' = recorded(k)
          /\ pc' = IF k = "Esc" THEN "returned" ELSE "draw"
          /\ res' = IF k = "Esc" THEN "Ok" ELSE res
    /\ UNCHANGED <<app, frame, navigated, overflow_checks, list, calls, list_panicked>>
    /\ seen' = [draws |-> draws, frame |-> frame]
    /\ draws' = 0
    /\ UNCHANGED <<before_draw, failed>>
    /\ UNCHANGED mainVars

\* _ => {}: a key with no arm of its own
KeyOther ==
    /\ pc = "read"
    /\ \E k \in OtherKeys :
          /\ log' = logged(k)
          /\ hist' = recorded(k)
    /\ pc' = "draw"
    /\ UNCHANGED <<app, res, frame, navigated, overflow_checks, list, calls, list_panicked>>
    /\ seen' = [draws |-> draws, frame |-> frame]
    /\ draws' = 0
    /\ UNCHANGED <<before_draw, failed>>
    /\ UNCHANGED mainVars

\* an event that is not a key clears the selection of the active tab
NonKey_reset ==
    /\ pc = "read"
    /\ \E e \in NonKeyEvents :
          /\ log' = logged(e)
          /\ hist' = recorded(e)
    /\ app' = [app EXCEPT !.task_lists[app.active_tab].state = None]
    /\ pc' = "draw"
    /\ UNCHANGED <<res, frame, navigated, overflow_checks, list, calls, list_panicked>>
    /\ seen' = [draws |-> draws, frame |-> frame]
    /\ draws' = 0
    /\ UNCHANGED <<before_draw, failed>>
    /\ UNCHANGED mainVars

\* an event that is not a key is followed by the next read, without a draw
NonKey_no_redraw ==
    /\ pc = "read"
    /\ \E e \in NonKeyEvents :
          /\ log' = logged(e)
          /\ hist' = recorded(e)
    /\ pc' = "read"
    /\ UNCHANGED <<app, res, frame, navigated, overflow_checks, list, calls, list_panicked>>
    /\ seen' = [draws |-> draws, frame |-> frame]
    /\ draws' = 0
    /\ UNCHANGED <<before_draw, failed>>
    /\ UNCHANGED mainVars

\* the if let does not match: an event that is not a key
NonKey ==
    /\ pc = "read"
    /\ \E e \in NonKeyEvents :
          /\ log' = logged(e)
          /\ hist' = recorded(e)
    /\ pc' = "draw"
    /\ UNCHANGED <<app, res, frame, navigated, overflow_checks, list, calls, list_panicked>>
    /\ seen' = [draws |-> draws, frame |-> frame]
    /\ draws' = 0
    /\ UNCHANGED <<before_draw, failed>>
    /\ UNCHANGED mainVars

(* -------------------------------- main --------------------------------- *)

\* what run_app owns, the histories of its loop, and the lists of ListSpec
loopVars == <<app, res, frame, log, hist, navigated, draws, seen, before_draw,
              overflow_checks, list, calls, list_panicked>>

\* enable_raw_mode()? succeeds
EnableRawMode ==
    /\ pc = "enable_raw_mode"
    /\ terminal' = [terminal EXCEPT !.raw_mode = TRUE]
    /\ pc' = "EnterAlternateScreen"
    /\ UNCHANGED <<called, failed, stderr, exit_code>>
    /\ UNCHANGED loopVars

\* enable_raw_mode()? fails: main returns the error, the process reports it and exits with 1
EnableRawModeErr ==
    /\ pc = "enable_raw_mode"
    /\ failed' = failed \cup {"enable_raw_mode"}
    /\ stderr' = Append(stderr, "Error")
    /\ exit_code' = <<1>>
    /\ pc' = "exited"
    /\ UNCHANGED <<terminal, called>>
    /\ UNCHANGED loopVars

\* execute!(stdout, EnterAlternateScreen)? succeeds
EnterAlternateScreen ==
    /\ pc = "EnterAlternateScreen"
    /\ terminal' = [terminal EXCEPT !.alternate_screen = TRUE]
    /\ pc' = "Terminal::new"
    /\ UNCHANGED <<called, failed, stderr, exit_code>>
    /\ UNCHANGED loopVars

\* execute!(stdout, EnterAlternateScreen)? fails: main returns the error
EnterAlternateScreenErr ==
    /\ pc = "EnterAlternateScreen"
    /\ failed' = failed \cup {"EnterAlternateScreen"}
    /\ stderr' = Append(stderr, "Error")
    /\ exit_code' = <<1>>
    /\ pc' = "exited"
    /\ UNCHANGED <<terminal, called>>
    /\ UNCHANGED loopVars

\* Terminal::new(backend)? succeeds; App::new(); run_app is entered
TerminalNew ==
    /\ pc = "Terminal::new"
    /\ pc' = "draw"
    /\ UNCHANGED <<terminal, called, failed, stderr, exit_code>>
    /\ UNCHANGED loopVars

\* Terminal::new(backend)? fails: main returns the error
TerminalNewErr ==
    /\ pc = "Terminal::new"
    /\ failed' = failed \cup {"Terminal::new"}
    /\ stderr' = Append(stderr, "Error")
    /\ exit_code' = <<1>>
    /\ pc' = "exited"
    /\ UNCHANGED <<terminal, called>>
    /\ UNCHANGED loopVars

\* disable_raw_mode()? succeeds, after run_app returned
DisableRawMode ==
    /\ pc = "returned"
    /\ called' = called \cup {"disable_raw_mode"}
    /\ terminal' = [terminal EXCEPT !.raw_mode = FALSE]
    /\ pc' = "LeaveAlternateScreen"
    /\ UNCHANGED <<failed, stderr, exit_code>>
    /\ UNCHANGED loopVars

\* disable_raw_mode()? fails: main returns the error
DisableRawModeErr ==
    /\ pc = "returned"
    /\ called' = called \cup {"disable_raw_mode"}
    /\ failed' = failed \cup {"disable_raw_mode"}
    /\ stderr' = Append(stderr, "Error")
    /\ exit_code' = <<1>>
    /\ pc' = "exited"
    /\ UNCHANGED terminal
    /\ UNCHANGED loopVars

\* execute!(terminal.backend_mut(), LeaveAlternateScreen)? succeeds
LeaveAlternateScreen ==
    /\ pc = "LeaveAlternateScreen"
    /\ called' = called \cup {"LeaveAlternateScreen"}
    /\ terminal' = [terminal EXCEPT !.alternate_screen = FALSE]
    /\ pc' = "show_cursor"
    /\ UNCHANGED <<failed, stderr, exit_code>>
    /\ UNCHANGED loopVars

\* execute!(terminal.backend_mut(), LeaveAlternateScreen)? fails: main returns the error
LeaveAlternateScreenErr ==
    /\ pc = "LeaveAlternateScreen"
    /\ called' = called \cup {"LeaveAlternateScreen"}
    /\ failed' = failed \cup {"LeaveAlternateScreen"}
    /\ stderr' = Append(stderr, "Error")
    /\ exit_code' = <<1>>
    /\ pc' = "exited"
    /\ UNCHANGED terminal
    /\ UNCHANGED loopVars

\* terminal.show_cursor()? succeeds
ShowCursor ==
    /\ pc = "show_cursor"
    /\ called' = called \cup {"show_cursor"}
    /\ pc' = "report"
    /\ UNCHANGED <<terminal, failed, stderr, exit_code>>
    /\ UNCHANGED loopVars

\* terminal.show_cursor()? fails: main returns the error
ShowCursorErr ==
    /\ pc = "show_cursor"
    /\ called' = called \cup {"show_cursor"}
    /\ failed' = failed \cup {"show_cursor"}
    /\ stderr' = Append(stderr, "Error")
    /\ exit_code' = <<1>>
    /\ pc' = "exited"
    /\ UNCHANGED terminal
    /\ UNCHANGED loopVars

\* if let Err(err) = res { eprintln!("{:?}", err); } Ok(()): the process exits with 0
Report ==
    /\ pc = "report"
    /\ stderr' = IF res = "Err" THEN Append(stderr, "eprintln") ELSE stderr
    /\ exit_code' = <<0>>
    /\ pc' = "exited"
    /\ UNCHANGED <<terminal, called, failed>>
    /\ UNCHANGED loopVars

Init ==
    /\ app = App_new
    /\ pc = "enable_raw_mode"
    /\ res = "none"
    /\ frame = <<>>
    /\ log = <<>>
    /\ hist = <<>>
    /\ navigated = {}
    /\ draws = 0
    /\ seen = [draws |-> 0, frame |-> <<>>]
    /\ before_draw = App_new
    /\ terminal = [raw_mode |-> FALSE, alternate_screen |-> FALSE]
    /\ called = {}
    /\ failed = {}
    /\ stderr = <<>>
    /\ exit_code = <<>>
    /\ overflow_checks \in BOOLEAN
    /\ list = StatefulList_new(<<>>)
    /\ calls = <<>>
    /\ list_panicked = FALSE

Next ==
    \/ EnableRawMode
    \/ EnableRawModeErr
    \/ EnterAlternateScreen
    \/ EnterAlternateScreenErr
    \/ TerminalNew
    \/ TerminalNewErr
    \/ DisableRawMode
    \/ DisableRawModeErr
    \/ LeaveAlternateScreen
    \/ LeaveAlternateScreenErr
    \/ ShowCursor
    \/ ShowCursorErr
    \/ Report
    \/ Draw
    \/ DrawErr
    \/ ReadErr
    \/ KeyQ
    \/ Key1
    \/ Key2
    \/ Key3
    \/ KeyEnter
    \/ KeyDown
    \/ KeyUp
    \/ KeyOther
    \/ NonKey

Spec == Init /\ [][Next]_vars

(* ------------------------ StatefulList on its own ---------------------- *)

\* the item sequences of length at most n
SeqsUpTo(n) == UNION {[1 .. k -> Items] : k \in 0 .. n}

\* list.next()
CallNext ==
    /\ ~list_panicked
    /\ Len(calls) < MaxCalls
    /\ LET r == next(list)
       IN  /\ list' = r.list
           /\ list_panicked' = r.panic
    /\ calls' = Append(calls, [op |-> "next", on |-> list])
    /\ UNCHANGED <<app, pc, res, frame, log, hist, navigated, overflow_checks>>
    /\ UNCHANGED <<draws, seen, before_draw, failed>>
    /\ UNCHANGED mainVars

\* list.previous()
CallPrevious ==
    /\ ~list_panicked
    /\ Len(calls) < MaxCalls
    /\ LET r == previous(list)
       IN  /\ list' = r.list
           /\ list_panicked' = r.panic
    /\ calls' = Append(calls, [op |-> "previous", on |-> list])
    /\ UNCHANGED <<app, pc, res, frame, log, hist, navigated, overflow_checks>>
    /\ UNCHANGED <<draws, seen, before_draw, failed>>
    /\ UNCHANGED mainVars

ListInit ==
    /\ app = App_new
    /\ pc = "draw"
    /\ res = "none"
    /\ frame = <<>>
    /\ log = <<>>
    /\ hist = <<>>
    /\ navigated = {}
    /\ draws = 0
    /\ seen = [draws |-> 0, frame |-> <<>>]
    /\ before_draw = App_new
    /\ terminal = [raw_mode |-> FALSE, alternate_screen |-> FALSE]
    /\ called = {}
    /\ failed = {}
    /\ stderr = <<>>
    /\ exit_code = <<>>
    /\ overflow_checks \in BOOLEAN
    /\ \E items \in SeqsUpTo(MaxLen) : list = StatefulList_new(items)
    /\ calls = <<>>
    /\ list_panicked = FALSE

ListNext ==
    \/ CallNext
    \/ CallPrevious

ListSpec == ListInit /\ [][ListNext]_vars

(* ------------------------------ claims --------------------------------- *)

\* the last call made in ListSpec, and the last event read in Spec
LastCall == calls[Len(calls)]
LastEvent == hist[Len(hist)]

\* the selection is Some(i) with i an index of the items
InRange(l) == l.state.some /\ 0 <= l.state.val /\ l.state.val < Len(l.items)

\* C1: on a non-empty list whose selection is Some(i), 0 <= i < len, next() does
\* not fail, leaves the selection at Some((i + 1) mod len), which is Some(0)
\* exactly when i = len - 1, and leaves the items as they were.
C1_NextAdvances ==
    (calls # <<>> /\ LastCall.op = "next" /\ InRange(LastCall.on))
    => LET i == LastCall.on.state.val
           len == Len(LastCall.on.items)
       IN  /\ ~list_panicked
           /\ list.state = Some((i + 1) % len)
           /\ (list.state = Some(0)) <=> (i = len - 1)
           /\ list.items = LastCall.on.items

\* next() has wrapped from the last of several items to the first
C1_Witness ==
    /\ calls # <<>>
    /\ LastCall.op = "next"
    /\ Len(list.items) = MaxLen
    /\ LastCall.on.state = Some(MaxLen - 1)
    /\ list.state = Some(0)

\* C2: on a non-empty list whose selection is Some(i), 0 <= i < len, previous()
\* does not fail, leaves the selection at Some((i - 1 + len) mod len), which is
\* Some(len - 1) exactly when i = 0, and leaves the items as they were.
C2_PreviousRetreats ==
    (calls # <<>> /\ LastCall.op = "previous" /\ InRange(LastCall.on))
    => LET i == LastCall.on.state.val
           len == Len(LastCall.on.items)
       IN  /\ ~list_panicked
           /\ list.state = Some((i - 1 + len) % len)
           /\ (list.state = Some(len - 1)) <=> (i = 0)
           /\ list.items = LastCall.on.items

\* previous() has wrapped from the first of several items to the last
C2_Witness ==
    /\ calls # <<>>
    /\ LastCall.op = "previous"
    /\ Len(list.items) = MaxLen
    /\ LastCall.on.state = Some(0)
    /\ list.state = Some(MaxLen - 1)

\* the tab keys and the tab each selects
TabKeys == {"1", "2", "3"}
TabOf(k) == IF k = "1" THEN 0 ELSE IF k = "2" THEN 1 ELSE 2

\* App b is App a but for active_tab
SameButActiveTab(a, b) ==
    /\ b.tabs = a.tabs
    /\ b.task_lists = a.task_lists
    /\ b.show_details = a.show_details

\* C3: a tab key changes only active_tab: every tab's selection and details flag
\* are what they were before the switch, also after two switches in a row; and
\* Enter on tab 0, then '2', then '1' leaves the details flag of tab 0 true.
C3_TabSwitchKeepsTabs ==
    /\ (hist # <<>> /\ LastEvent.ev \in TabKeys)
       => /\ SameButActiveTab(LastEvent.app, app)
          /\ app.active_tab = TabOf(LastEvent.ev)
    /\ (Len(hist) = 2 /\ hist[1].ev \in TabKeys /\ hist[2].ev \in TabKeys)
       => SameButActiveTab(hist[1].app, app)
    /\ (log = <<"Enter", "2", "1">>)
       => /\ app.active_tab = 0
          /\ app.show_details[0] = TRUE

\* tab 0 was left and entered again, with a selection and its details shown
C3_Witness ==
    /\ Len(hist) = 2
    /\ hist[1].ev = "2"
    /\ hist[2].ev = "1"
    /\ hist[1].app.active_tab = 0
    /\ app.active_tab = 0
    /\ app.show_details[0] = TRUE
    /\ app.task_lists[0].state = Some(1)

\* C4: Down and Up change only the selection of the active tab: active_tab,
\* every details flag, every other tab's list and the active tab's items are
\* what they were before the key.
C4_NavigationTouchesActiveTabOnly ==
    (hist # <<>> /\ LastEvent.ev \in {"Down", "Up"})
    => LET old == LastEvent.app
       IN  /\ app.active_tab = old.active_tab
           /\ app.tabs = old.tabs
           /\ app.show_details = old.show_details
           /\ \A t \in DOMAIN old.task_lists :
                 t # old.active_tab => app.task_lists[t] = old.task_lists[t]
           /\ app.task_lists[old.active_tab].items = old.task_lists[old.active_tab].items

\* Down moved the selection of tab 1 while tab 0 kept another selection and its details
C4_Witness ==
    /\ hist # <<>>
    /\ LastEvent.ev = "Down"
    /\ app.active_tab = 1
    /\ LastEvent.app.task_lists[1].state = Some(0)
    /\ app.task_lists[1].state = Some(1)
    /\ app.task_lists[0].state = Some(0)
    /\ app.task_lists[2].state = None
    /\ app.show_details[0] = TRUE

\* C5: Enter flips the details flag of the active tab and changes nothing else;
\* two Enter in a row leave the App as it was before the first.
C5_ToggleDetails ==
    /\ (hist # <<>> /\ LastEvent.ev = "Enter")
       => LET old == LastEvent.app
          IN  /\ app.active_tab = old.active_tab
              /\ app.tabs = old.tabs
              /\ app.task_lists = old.task_lists
              /\ app.show_details[old.active_tab] = ~old.show_details[old.active_tab]
              /\ \A t \in DOMAIN old.show_details :
                    t # old.active_tab => app.show_details[t] = old.show_details[t]
    /\ (Len(hist) = 2 /\ hist[1].ev = "Enter" /\ hist[2].ev = "Enter")
       => app = hist[1].app

\* two Enter in a row on tab 1, whose details were shown before them
C5_Witness ==
    /\ Len(hist) = 2
    /\ hist[1].ev = "Enter"
    /\ hist[2].ev = "Enter"
    /\ app.active_tab = 1
    /\ hist[1].app.show_details[1] = TRUE
    /\ hist[2].app.show_details[1] = FALSE
    /\ app.show_details[1] = TRUE

\* C6: active_tab is always one of the three tab indices, an index of tabs, of
\* task_lists and of show_details; the key '5' leaves the whole App as it was.
C6_ActiveTabValid ==
    /\ Cardinality(DOMAIN app.tabs) = 3
    /\ 0 <= app.active_tab
    /\ app.active_tab < Cardinality(DOMAIN app.tabs)
    /\ app.active_tab \in DOMAIN app.tabs
    /\ app.active_tab \in DOMAIN app.task_lists
    /\ app.active_tab \in DOMAIN app.show_details
    /\ (hist # <<>> /\ LastEvent.ev = "5") => app = LastEvent.app

\* '5' was read on the last tab, which stayed the active one
C6_Witness ==
    /\ hist # <<>>
    /\ LastEvent.ev = "5"
    /\ LastEvent.app.active_tab = 2
    /\ app.active_tab = 2

\* the selection is None or Some(i) with i an index of the items
NoneOrInRange(l) == l.state = None \/ InRange(l)

\* C7: every tab's selection is None or Some(i) with 0 <= i < len(items); and
\* a tab with items whose list had next() or previous() called on it has a
\* selection Some(i) with 0 <= i < len(items).
C7_SelectionInRange ==
    /\ pc # "panicked"
    /\ \A t \in DOMAIN app.task_lists :
          /\ NoneOrInRange(app.task_lists[t])
          /\ (t \in navigated /\ Len(app.task_lists[t].items) > 0)
             => InRange(app.task_lists[t])

\* every tab was navigated, one tab rests on its last item, one tab on its first
C7_Witness ==
    /\ navigated = DOMAIN app.task_lists
    /\ app.task_lists[0].state = Some(Len(app.task_lists[0].items) - 1)
    /\ app.task_lists[1].state = Some(0)
    /\ InRange(app.task_lists[2])

\* C8: a list built from no items has selection None after construction and
\* after any calls of next() and previous(), none of which fails.
C8_EmptyListStaysNone ==
    Len(list.items) = 0 => (list.state = None /\ ~list_panicked)

\* C9: at the start active_tab is 0, no tab has a selection and no details are
\* shown; Down and Up on a tab with no selection both select its first task;
\* from the start Down, Down, Down select tasks 0, 1 and 0 of tab 0.
C9_InitialStateAndFirstMove ==
    /\ (log = <<>>)
       => /\ app.active_tab = 0
          /\ \A t \in DOMAIN app.task_lists : app.task_lists[t].state = None
          /\ \A t \in DOMAIN app.show_details : app.show_details[t] = FALSE
          /\ Len(app.task_lists[0].items) = 2
    /\ (hist # <<>> /\ LastEvent.ev \in {"Down", "Up"}
          /\ LastEvent.app.task_lists[LastEvent.app.active_tab].state = None)
       => /\ pc # "panicked"
          /\ app.task_lists[LastEvent.app.active_tab].state = Some(0)
    /\ (log = <<"Down">>) => app.task_lists[0].state = Some(0)
    /\ (log = <<"Down", "Down">>) => app.task_lists[0].state = Some(1)
    /\ (log = <<"Down", "Down", "Down">>) => app.task_lists[0].state = Some(0)

\* three Down from the start have brought tab 0 back to its first task
C9_Witness ==
    /\ log = <<"Down", "Down", "Down">>
    /\ app.active_tab = 0
    /\ app.task_lists[0].state = Some(0)
    /\ hist[2].app.task_lists[0].state = Some(1)

\* C10: on a list of one item every call of next() or previous() leaves the
\* selection at Some(0); on a list of two or more items every call of next()
\* or previous() changes the selection.
C10_OneItemFixedElseMoves ==
    (calls # <<>>)
    => /\ Len(list.items) = 1
          => (list.state = Some(0) /\ ~list_panicked)
       /\ (Len(list.items) = 1 /\ LastCall.on.state = Some(0))
          => list = LastCall.on
       /\ Len(list.items) >= 2
          => (list.state # LastCall.on.state /\ ~list_panicked
              /\ list.items = LastCall.on.items)

\* a list of one item after a call that found Some(0) and left it there
C10_Witness ==
    /\ Len(calls) >= 2
    /\ Len(list.items) = 1
    /\ LastCall.on.state = Some(0)
    /\ list.state = Some(0)

\* the positions of run_app's loop, and the step of the loop
InLoop == pc \in {"draw", "read"}
LoopStep ==
    \/ Draw \/ DrawErr \/ ReadErr \/ KeyQ \/ Key1 \/ Key2 \/ Key3
    \/ KeyEnter \/ KeyDown \/ KeyUp \/ KeyOther \/ NonKey
\* run_app was entered and is not in its loop any more
LoopLeft == pc \in {"returned", "LeaveAlternateScreen", "show_cursor", "report"}
               \/ (pc = "exited" /\ res # "none")

\* C11: run_app returns Ok exactly on 'q', with the App as it was; while no I/O
\* call fails no other event ends the loop and the process then exits with
\* code 0; once the loop is left no event is read and nothing is drawn.
C11_QuitEndsLoop ==
    /\ (res = "Ok") <=> (hist # <<>> /\ LastEvent.ev = "q")
    /\ (hist # <<>> /\ LastEvent.ev = "q") => (app = LastEvent.app /\ LoopLeft)
    /\ (hist # <<>> /\ LastEvent.ev # "q" /\ failed = {}) => InLoop
    /\ (LoopLeft /\ failed = {}) => res = "Ok"
    /\ (exit_code # <<>> /\ res = "Ok" /\ failed = {}) => exit_code = <<0>>
    /\ LoopLeft => ~ENABLED LoopStep

\* 'q' was read on tab 1 after other events, and the process has exited with code 0
C11_Witness ==
    /\ Len(hist) = 2
    /\ LastEvent.ev = "q"
    /\ hist[1].ev = "Down"
    /\ app.active_tab = 1
    /\ res = "Ok"
    /\ pc = "exited"
    /\ exit_code = <<0>>

\* C12: a key other than q, 1, 2, 3, Down, Up, Enter, and an event that is not
\* a key, leave the App as it was and do not end the loop.
C12_OtherEventsNoOp ==
    (hist # <<>> /\ LastEvent.ev \in OtherKeys \cup NonKeyEvents)
    => /\ app = LastEvent.app
       /\ res # "Ok"
       /\ failed = {} => InLoop
       /\ pc # "panicked"

\* a resize arrived on a tab with a selection and details shown, and was followed by a draw
C12_Witness ==
    /\ hist # <<>>
    /\ LastEvent.ev = "Resize"
    /\ app.active_tab = 1
    /\ app.task_lists[1].state = Some(1)
    /\ app.show_details[1] = TRUE
    /\ pc = "read"

\* reading an event, whatever it is
EventStep ==
    \/ KeyQ \/ Key1 \/ Key2 \/ Key3 \/ KeyEnter \/ KeyDown \/ KeyUp \/ KeyOther \/ NonKey

\* C13: draws and reads alternate: an event is read only after exactly one
\* draw since the previous event (or the start), that draw shows the App the
\* previous event produced, and no event is read while a draw is due.
C13_DrawReadAlternate ==
    /\ (pc = "read") => (draws = 1 /\ frame = <<render(app)>>)
    /\ (pc = "draw") => (draws = 0 /\ ~ENABLED EventStep)
    /\ (hist # <<>>)
       => /\ seen.draws = 1
          /\ seen.frame = <<render(LastEvent.app)>>
    /\ (Len(hist) = 2 /\ hist[1].ev = "Down" /\ hist[1].app.active_tab = 0)
       => seen.frame[1].selected # render(hist[1].app).selected

\* two events were read, the first changed the App, and the draw between them showed the change
C13_Witness ==
    /\ Len(hist) = 2
    /\ hist[1].ev = "Down"
    /\ hist[2].ev = "Enter"
    /\ seen.draws = 1
    /\ seen.frame[1].selected = Some(0)
    /\ hist[1].app.task_lists[0].state = None
    /\ pc = "read"
    /\ frame[1].detail = TRUE

\* C14: a draw leaves the App as it was, and the frame it makes shows the tab
\* labels, the active tab, and the items, selection and details flag of the
\* active tab as they are in the App it was given.
C14_RenderIsPure ==
    /\ (pc = "read") => app = before_draw
    /\ (frame # <<>>)
       => LET f == frame[1]
              a == before_draw
          IN  /\ f.tabs = a.tabs
              /\ f.select = a.active_tab
              /\ f.task_items = a.task_lists[a.active_tab].items
              /\ f.selected = a.task_lists[a.active_tab].state
              /\ f.detail = a.show_details[a.active_tab]

\* tab 2 was drawn with its own selection and details while tab 0 holds another selection
C14_Witness ==
    /\ pc = "read"
    /\ app.active_tab = 2
    /\ frame[1].select = 2
    /\ frame[1].selected = Some(1)
    /\ frame[1].detail = TRUE
    /\ frame[1].task_items = <<"Practice guitar", "Read a book">>
    /\ app.task_lists[0].state = Some(0)
    /\ app.show_details[0] = FALSE

\* C15: the process exits with a code other than 0, and with the failure on
\* the error stream, whenever an I/O call of setup, of the loop or of teardown
\* failed; it exits with code 0 only after 'q'.
C15_IoFailureExitsNonZero ==
    (exit_code # <<>>)
    => /\ failed # {} => (exit_code # <<0>> /\ stderr # <<>>)
       /\ exit_code = <<0>> => res = "Ok"

\* C16: a frame shows the details panel only when it shows a selected task.
C16_DetailsOnlyWithSelection ==
    (frame # <<>> /\ frame[1].detail) => frame[1].selected.some

\* the call before the last one in ListSpec
CallBeforeLast == calls[Len(calls) - 1]

\* C17: on a non-empty list whose selection is Some(i), 0 <= i < len, next()
\* then previous(), and previous() then next(), leave the list as it was.
C17_NextPreviousInverse ==
    (/\ Len(calls) >= 2
     /\ InRange(CallBeforeLast.on)
     /\ {CallBeforeLast.op, LastCall.op} = {"next", "previous"})
    => (list = CallBeforeLast.on /\ ~list_panicked)

\* next() wrapped from the last of several items to the first and previous() wrapped back
C17_Witness ==
    /\ Len(calls) >= 2
    /\ Len(list.items) = MaxLen
    /\ CallBeforeLast.op = "next"
    /\ CallBeforeLast.on.state = Some(MaxLen - 1)
    /\ LastCall.op = "previous"
    /\ LastCall.on.state = Some(0)
    /\ list.state = Some(MaxLen - 1)

\* C17 in the program: Down then Up, and Up then Down, on a tab with a selected
\* task leave the whole App as it was.
C17_DownUpRestoresApp ==
    (/\ Len(hist) = 2
     /\ {hist[1].ev, hist[2].ev} = {"Down", "Up"}
     /\ hist[1].app.task_lists[hist[1].app.active_tab].state.some)
    => (app = hist[1].app /\ pc # "panicked")

\* C18: a tab's selection, once Some, stays Some under every event and every
\* draw; it turns from None to Some only by Down or Up read while that tab is
\* the active one, so a tab has a selection exactly if it was navigated.
C18_SelectionMonotone ==
    \A t \in DOMAIN app.task_lists :
       /\ (hist # <<>> /\ LastEvent.app.task_lists[t].state.some)
          => app.task_lists[t].state.some
       /\ (Len(hist) = 2 /\ hist[1].app.task_lists[t].state.some)
          => app.task_lists[t].state.some
       /\ before_draw.task_lists[t].state.some => app.task_lists[t].state.some
       /\ (hist # <<>> /\ ~LastEvent.app.task_lists[t].state.some
             /\ app.task_lists[t].state.some)
          => (LastEvent.ev \in {"Down", "Up"} /\ LastEvent.app.active_tab = t)
       /\ app.task_lists[t].state.some <=> t \in navigated

\* tab 1 was entered again by '2' and still has the selection it was left with
C18_Witness ==
    /\ Len(hist) = 2
    /\ hist[1].ev = "1"
    /\ hist[2].ev = "2"
    /\ hist[1].app.task_lists[1].state = Some(1)
    /\ app.active_tab = 1
    /\ app.task_lists[1].state = Some(1)
    /\ app.task_lists[2].state = None
    /\ app.show_details[1] = TRUE
    /\ pc = "read"

\* C19: whenever main has returned after enable_raw_mode succeeded,
\* disable_raw_mode has been called, raw mode is off and the alternate screen
\* is not entered.
C19_TerminalRestored ==
    (pc = "exited" /\ "enable_raw_mode" \notin failed)
    => /\ "disable_raw_mode" \in called
       /\ terminal.alternate_screen = FALSE

====
